---- MODULE Spec2Model ----
(***************************************************************************)
(* MeshRenumbering::renumber_by_color (dolfin/mesh/MeshRenumbering.cpp).   *)
(*                                                                         *)
(* The mesh, its "cell colors" mesh function and its "num colored cells"   *)
(* and "colored cells" arrays are the state; the function is a sequence of *)
(* steps, one action per statement group, with the loops unrolled one      *)
(* iteration per step.  C++ arrays and vectors are sequences read and      *)
(* written through At and Put, which take the 0-based index of the code.   *)
(*                                                                         *)
(* The assert() calls of the function do nothing here: lines 67 and 128 do *)
(* not compile unless NDEBUG removes them (line 67 names the undeclared    *)
(* num_collored_cells, line 128 compares a size with num_colored_cells     *)
(* [color], a std::vector found by pointer arithmetic), so every build of  *)
(* this file is a build without assertions.  What the assertions were to   *)
(* exclude is then undefined behaviour (a null pointer read, a write past  *)
(* the end of an array) and ends the run in pc = "ub".                     *)
(***************************************************************************)
EXTENDS FiniteSets, Integers, Sequences, TLC

\* Bounds of the checked inputs.
MaxVertices == 3
MaxCells == 2
MaxConnections == 4
MaxColors == 2
MaxCalls == 2
GeometricDim == 2

\* new_vertex_indices: "-1 if not yet renumbered".
Unassigned == -1
\* A scratch entry that new[] allocated and nothing has written yet.
Uninit == -7
\* What an entry never written may hold when it is read.
GarbageValues == {0, 9}

VARIABLES
  num_vertices, num_cells, vertices_per_cell,
  connections, coordinates, other_connectivity,
  has_cell_colors, cell_colors,
  has_num_colored_cells, num_colored_cells, colored_cells,
  connections_size, coordinates_size,
  new_connections, new_coordinates, new_vertex_indices,
  num_colors, connections_offset, current_vertex,
  color, i, j, current_cell,
  pc, failure, inputs

shapeVars == <<num_vertices, num_cells, vertices_per_cell>>
meshVars == <<connections, coordinates, other_connectivity>>
dataVars == <<has_cell_colors, cell_colors, has_num_colored_cells,
              num_colored_cells, colored_cells>>
scratchVars == <<connections_size, coordinates_size, new_connections,
                 new_coordinates, new_vertex_indices, num_colors,
                 connections_offset, current_vertex>>
loopVars == <<color, i, j, current_cell>>
vars == <<shapeVars, meshVars, dataVars, scratchVars, loopVars,
          pc, failure, inputs>>

-----------------------------------------------------------------------------
\* Arrays with the 0-based index of the code.
At(s, n) == s[n + 1]
Put(s, n, x) == [s EXCEPT ![n + 1] = x]
Filled(n, x) == [k \in 1..n |-> x]

RECURSIVE Flatten(_)
Flatten(ss) == IF ss = <<>> THEN <<>> ELSE Head(ss) \o Flatten(Tail(ss))

RECURSIVE SumSeq(_)
SumSeq(s) == IF s = <<>> THEN 0 ELSE Head(s) + SumSeq(Tail(s))

Range(s) == {s[k] : k \in 1..Len(s)}

-----------------------------------------------------------------------------
\* The inputs: a mesh and the data the coloring left on it.

\* topology.dim() of a simplex cell with vpc vertices.
TopologyDim(vpc) == vpc - 1

\* The pairs (d0, d1) other than cell - vertex.
OtherPairs(D) == ((0..D) \X (0..D)) \ {<<D, 0>>}

Shapes ==
  {s \in (1..MaxVertices) \X (1..MaxCells) \X (1..MaxConnections) :
     s[2] * s[3] <= MaxConnections}

ConnectivityInputs(nv, nc, vpc) == [1..(nc * vpc) -> 0..(nv - 1)]

\* Vertex v has the coordinates 10v+1 .. 10v+GeometricDim.
CoordinateInputs(nv) ==
  {[k \in 1..(nv * GeometricDim) |->
      10 * ((k - 1) \div GeometricDim) + ((k - 1) % GeometricDim) + 1]}

\* The sequences of n distinct elements of S.
Orderings(S) ==
  {s \in [1..Cardinality(S) -> S] : \A a, b \in 1..Cardinality(S) :
                                       a # b => s[a] # s[b]}

\* s cut into ncol consecutive pieces: cuts are the non-decreasing end points.
CutInto(s, cuts) ==
  [c \in 1..Len(cuts) |->
     SubSeq(s, (IF c = 1 THEN 0 ELSE cuts[c - 1]) + 1, cuts[c])]

Cuts(n, ncol) ==
  {cuts \in [1..ncol -> 0..n] :
     /\ cuts[ncol] = n
     /\ \A c \in 1..(ncol - 1) : cuts[c] <= cuts[c + 1]}

\* The label of a cell: the first color whose list holds it (0 if none does).
LabelsOf(lists, nc) ==
  [k \in 1..nc |->
     IF \E c \in 1..Len(lists) : (k - 1) \in Range(lists[c])
     THEN (CHOOSE c \in 1..Len(lists) :
             /\ (k - 1) \in Range(lists[c])
             /\ \A b \in 1..(c - 1) : (k - 1) \notin Range(lists[b])) - 1
     ELSE 0]

Coloring(hasLabels, hasCounts, counts, lists, nc) ==
  [has_cell_colors |-> hasLabels, cell_colors |-> LabelsOf(lists, nc),
   has_num_colored_cells |-> hasCounts, num_colored_cells |-> counts,
   colored_cells |-> lists]

Lengths(lists) == [c \in 1..Len(lists) |-> Len(lists[c])]

\* Every cell in exactly one list, exactly once.
PartitionLists(nc, ordered) ==
  UNION {{CutInto(s, cuts) : cuts \in Cuts(nc, ncol)} :
         <<s, ncol>> \in
           (IF ordered THEN {[k \in 1..nc |-> k - 1]} ELSE Orderings(0..(nc - 1)))
           \X (1..MaxColors)}

ValidColorings(nc) ==
  {Coloring(TRUE, TRUE, Lengths(l), l, nc) : l \in PartitionLists(nc, FALSE)}

\* A list that lost one of its cells, or that holds one cell more.
DropAt(s, p) == SubSeq(s, 1, p - 1) \o SubSeq(s, p + 1, Len(s))

EditedLists(nc) ==
  UNION {
    {[l EXCEPT ![c] = DropAt(l[c], p)] :
       <<c, p>> \in {x \in (1..Len(l)) \X (1..nc) : x[2] <= Len(l[x[1]])}}
    \cup
    {[l EXCEPT ![c] = Append(l[c], k)] :
       <<c, k>> \in (1..Len(l)) \X (0..(nc - 1))}
    : l \in PartitionLists(nc, TRUE)}

\* Colorings the code trusts and does not verify.
UntrustedColorings(nc) ==
  {Coloring(TRUE, TRUE, Lengths(l), l, nc) : l \in EditedLists(nc)}
  \cup
  UNION {
    {Coloring(TRUE, TRUE, [Lengths(l) EXCEPT ![c] = @ + d], l, nc) :
       <<c, d>> \in {x \in (1..Len(l)) \X {-1, 1} : Len(l[x[1]]) + x[2] >= 0}}
    \cup
    {Coloring(FALSE, TRUE, Lengths(l), l, nc),
     Coloring(TRUE, FALSE, Lengths(l), l, nc),
     Coloring(TRUE, TRUE, Lengths(l), SubSeq(l, 1, Len(l) - 1), nc)}
    : l \in PartitionLists(nc, TRUE)}
  \cup
  {Coloring(TRUE, TRUE, <<>>, <<>>, nc)}

ColoringInputs(nc) == ValidColorings(nc) \cup UntrustedColorings(nc)

\* The example of the specification's section 8.
ExampleConnections == <<0, 1, 2,  2, 3, 4,  3, 1, 0>>
ExampleColoring == Coloring(TRUE, TRUE, <<2, 1>>, << <<2, 0>>, <<1>> >>, 3)

-----------------------------------------------------------------------------
\* What a caller hands to renumber_by_color.
Snapshot ==
  [connections |-> connections, coordinates |-> coordinates,
   other_connectivity |-> other_connectivity,
   has_cell_colors |-> has_cell_colors, cell_colors |-> cell_colors,
   has_num_colored_cells |-> has_num_colored_cells,
   num_colored_cells |-> num_colored_cells, colored_cells |-> colored_cells]

InitScratch ==
  /\ connections_size = 0
  /\ coordinates_size = 0
  /\ new_connections = <<>>
  /\ new_coordinates = <<>>
  /\ new_vertex_indices = <<>>
  /\ num_colors = 0
  /\ connections_offset = 0
  /\ current_vertex = 0
  /\ color = 0
  /\ i = 0
  /\ j = 0
  /\ current_cell = 0
  /\ pc = "idle"
  /\ failure = "none"
  /\ inputs = <<>>

InitMesh(nv, nc, vpc, conn, col) ==
  /\ num_vertices = nv
  /\ num_cells = nc
  /\ vertices_per_cell = vpc
  /\ connections = conn
  /\ coordinates \in CoordinateInputs(nv)
  /\ other_connectivity \in {{}, OtherPairs(TopologyDim(vpc))}
  /\ has_cell_colors = col.has_cell_colors
  /\ cell_colors = col.cell_colors
  /\ has_num_colored_cells = col.has_num_colored_cells
  /\ num_colored_cells = col.num_colored_cells
  /\ colored_cells = col.colored_cells

Init ==
  /\ \/ \E s \in Shapes :
          \E conn \in ConnectivityInputs(s[1], s[2], s[3]) :
            \E col \in ColoringInputs(s[2]) :
              InitMesh(s[1], s[2], s[3], conn, col)
     \/ InitMesh(5, 3, 3, ExampleConnections, ExampleColoring)
  /\ InitScratch

-----------------------------------------------------------------------------
\* The statements of renumber_by_color.

\* Lines 85, 91: cell_vertices[j], the vertex in slot j of the cell.
CellVertex_Reversed(conn, cell, vpc, slot) ==
  At(conn, cell * vpc + (vpc - 1 - slot))

CellVertex(conn, cell, vpc, slot) == At(conn, cell * vpc + slot)

\* Line 94: the vertex has no new index yet.
NotYetRenumbered(nvi, v) == At(nvi, v) = Unassigned

\* Lines 96-99: std::copy of the d coordinates of vertex v to slot cur.
CopyCoordinates_FromSlot(newc, coords, v, cur, d) ==
  [k \in 1..Len(newc) |->
     IF cur * d < k /\ k <= (cur + 1) * d THEN coords[k] ELSE newc[k]]

CopyCoordinates(newc, coords, v, cur, d) ==
  [k \in 1..Len(newc) |->
     IF cur * d < k /\ k <= (cur + 1) * d
     THEN coords[v * d + (k - cur * d)]
     ELSE newc[k]]

\* Line 100: current_vertex++.
NextVertex_Stuck(cur) == cur

NextVertex(cur) == cur + 1

\* Line 104: the entry written to new_connections.
NewVertexIndex_Old(nvi, v) == v

NewVertexIndex(nvi, v) == At(nvi, v)

\* Lines 112-113: no vertex is left at -1.
AllRenumbered_Unchecked(nvi) == TRUE

AllRenumbered(nvi) == \A k \in 1..Len(nvi) : nvi[k] # Unassigned

\* Lines 117, 118: std::copy of size entries of scratch over live; g is what
\* the entries never written hold.
CopyData(scratch, size, live, g) ==
  [k \in 1..Len(live) |->
     IF k <= size
     THEN (IF scratch[k] = Uninit THEN g[k] ELSE scratch[k])
     ELSE live[k]]

UnwrittenEntries(scratch, size) == {k \in 1..size : scratch[k] = Uninit}

\* Line 131: the new index of the cell in the next slot of the sweep.
NewCellIndex_FromOne(cur) == cur + 1

NewCellIndex(cur) == cur

\* Line 132: the label of that cell.
NewCellColor_Zero(col) == 0

NewCellColor(col) == col

\* Lines 21-26: a caller enters the function.
Call ==
  /\ pc \in {"idle", "done"}
  /\ Len(inputs) < MaxCalls
  /\ inputs' = Append(inputs, Snapshot)
  /\ pc' = "check_colored"
  /\ failure' = "none"
  /\ connections_size' = 0
  /\ coordinates_size' = 0
  /\ new_connections' = <<>>
  /\ new_coordinates' = <<>>
  /\ new_vertex_indices' = <<>>
  /\ num_colors' = 0
  /\ connections_offset' = 0
  /\ current_vertex' = 0
  /\ color' = 0
  /\ i' = 0
  /\ j' = 0
  /\ current_cell' = 0
  /\ UNCHANGED <<shapeVars, meshVars, dataVars>>

\* Lines 28-31.
CheckColored ==
  /\ pc = "check_colored"
  /\ IF has_cell_colors
     THEN pc' = "clean" /\ failure' = failure
     ELSE pc' = "error" /\ failure' = "not colored"
  /\ UNCHANGED <<shapeVars, meshVars, dataVars, scratchVars, loopVars, inputs>>

\* Lines 37-45: mesh.clean() drops every connectivity but cell - vertex.
Clean ==
  /\ pc = "clean"
  /\ other_connectivity' = {}
  /\ pc' = "alloc"
  /\ UNCHANGED <<shapeVars, connections, coordinates, dataVars, scratchVars,
                 loopVars, failure, inputs>>

\* Lines 50-71.  num_colored_cells->size() reads through a null pointer when
\* the array is absent.
Allocate ==
  /\ pc = "alloc"
  /\ IF has_num_colored_cells
     THEN /\ connections_size' = Len(connections)
          /\ coordinates_size' = num_vertices * GeometricDim
          /\ new_connections' = Filled(Len(connections), Uninit)
          /\ new_coordinates' = Filled(num_vertices * GeometricDim, Uninit)
          /\ new_vertex_indices' = Filled(num_vertices, Unassigned)
          /\ num_colors' = Len(num_colored_cells)
          /\ connections_offset' = 0
          /\ current_vertex' = 0
          /\ pc' = "pass"
          /\ failure' = failure
     ELSE /\ pc' = "ub"
          /\ failure' = "null num_colored_cells"
          /\ UNCHANGED scratchVars
  /\ color' = 0
  /\ i' = 0
  /\ j' = 0
  /\ UNCHANGED <<shapeVars, meshVars, dataVars, current_cell, inputs>>

\* Lines 75, 79: colored_cells->size() with no list for the color.
PassNoList ==
  /\ pc = "pass"
  /\ color < num_colors
  /\ color >= Len(colored_cells)
  /\ pc' = "ub"
  /\ failure' = "null colored_cells"
  /\ UNCHANGED <<shapeVars, meshVars, dataVars, scratchVars, loopVars, inputs>>

\* Lines 82-107: one iteration of the loop over the vertices of a cell.
PassVertex ==
  /\ pc = "pass"
  /\ color < num_colors
  /\ color < Len(colored_cells)
  /\ i < Len(At(colored_cells, color))
  /\ LET cell == At(At(colored_cells, color), i)
         vertex_index == CellVertex(connections, cell, vertices_per_cell, j)
         fresh == NotYetRenumbered(new_vertex_indices, vertex_index)
         nvi == IF fresh
                THEN Put(new_vertex_indices, vertex_index, current_vertex)
                ELSE new_vertex_indices
     IN IF cell >= num_cells \/ vertex_index \notin 0..(num_vertices - 1)
        THEN /\ pc' = "ub"
             /\ failure' = "index out of range"
             /\ UNCHANGED <<scratchVars, color, i, j>>
        ELSE IF fresh /\ current_vertex >= num_vertices
        THEN /\ pc' = "ub"
             /\ failure' = "write past new_coordinates"
             /\ UNCHANGED <<scratchVars, color, i, j>>
        ELSE IF connections_offset >= connections_size
        THEN /\ pc' = "ub"
             /\ failure' = "write past new_connections"
             /\ new_vertex_indices' = nvi
             /\ new_coordinates' =
                  IF fresh
                  THEN CopyCoordinates(new_coordinates, coordinates,
                                       vertex_index, current_vertex, GeometricDim)
                  ELSE new_coordinates
             /\ current_vertex' = IF fresh THEN NextVertex(current_vertex)
                                  ELSE current_vertex
             /\ UNCHANGED <<connections_size, coordinates_size, new_connections,
                            num_colors, connections_offset, color, i, j>>
        ELSE /\ new_coordinates' =
                  IF fresh
                  THEN CopyCoordinates(new_coordinates, coordinates,
                                       vertex_index, current_vertex, GeometricDim)
                  ELSE new_coordinates
             /\ new_vertex_indices' = nvi
             /\ current_vertex' = IF fresh THEN NextVertex(current_vertex)
                                  ELSE current_vertex
             /\ new_connections' = Put(new_connections, connections_offset,
                                       NewVertexIndex(nvi, vertex_index))
             /\ connections_offset' = connections_offset + 1
             /\ IF j + 1 < vertices_per_cell
                THEN j' = j + 1 /\ i' = i
                ELSE j' = 0 /\ i' = i + 1
             /\ UNCHANGED <<connections_size, coordinates_size, num_colors,
                            color, pc, failure>>
  /\ UNCHANGED <<shapeVars, meshVars, dataVars, current_cell, inputs>>

\* Lines 72, 79: the list of the color is exhausted.
PassNextColor ==
  /\ pc = "pass"
  /\ color < num_colors
  /\ color < Len(colored_cells)
  /\ i >= Len(At(colored_cells, color))
  /\ color' = color + 1
  /\ i' = 0
  /\ UNCHANGED <<shapeVars, meshVars, dataVars, scratchVars, j, current_cell,
                 pc, failure, inputs>>

\* Line 72: the loop over colors ends.
PassEnd ==
  /\ pc = "pass"
  /\ color >= num_colors
  /\ pc' = "check_complete"
  /\ UNCHANGED <<shapeVars, meshVars, dataVars, scratchVars, loopVars,
                 failure, inputs>>

\* Lines 111-114.
CheckComplete ==
  /\ pc = "check_complete"
  /\ IF AllRenumbered(new_vertex_indices)
     THEN pc' = "copy" /\ failure' = failure
     ELSE pc' = "error" /\ failure' = "not all vertices renumbered"
  /\ UNCHANGED <<shapeVars, meshVars, dataVars, scratchVars, loopVars, inputs>>

\* Lines 116-121.
Copy ==
  /\ pc = "copy"
  /\ \E g \in [UnwrittenEntries(new_connections, connections_size)
                 -> GarbageValues] :
       connections' = CopyData(new_connections, connections_size, connections, g)
  /\ \E g \in [UnwrittenEntries(new_coordinates, coordinates_size)
                 -> GarbageValues] :
       coordinates' = CopyData(new_coordinates, coordinates_size, coordinates, g)
  /\ current_cell' = 0
  /\ color' = 0
  /\ i' = 0
  /\ pc' = "update"
  /\ UNCHANGED <<shapeVars, other_connectivity, dataVars, scratchVars, j,
                 failure, inputs>>

\* Lines 129-134: one iteration of the loop over the recorded count of a
\* color.  Line 128 is compiled out.
UpdateCell ==
  /\ pc = "update"
  /\ color < num_colors
  /\ i < At(num_colored_cells, color)
  /\ IF color >= Len(colored_cells) \/ i >= Len(colored_cells[color + 1])
     THEN /\ pc' = "ub"
          /\ failure' = "write past colored_cells"
          /\ UNCHANGED <<dataVars, loopVars>>
     ELSE /\ colored_cells' =
               [colored_cells EXCEPT ![color + 1] =
                  Put(@, i, NewCellIndex(current_cell))]
          /\ IF current_cell >= Len(cell_colors)
             THEN /\ pc' = "ub"
                  /\ failure' = "write past cell_colors"
                  /\ UNCHANGED <<cell_colors, loopVars>>
             ELSE /\ cell_colors' = Put(cell_colors, current_cell,
                                        NewCellColor(color))
                  /\ current_cell' = current_cell + 1
                  /\ i' = i + 1
                  /\ UNCHANGED <<color, j, pc, failure>>
          /\ UNCHANGED <<has_cell_colors, has_num_colored_cells,
                         num_colored_cells>>
  /\ UNCHANGED <<shapeVars, meshVars, scratchVars, inputs>>

\* Lines 122, 129: the recorded count of the color is exhausted.
UpdateNextColor ==
  /\ pc = "update"
  /\ color < num_colors
  /\ i >= At(num_colored_cells, color)
  /\ color' = color + 1
  /\ i' = 0
  /\ UNCHANGED <<shapeVars, meshVars, dataVars, scratchVars, j, current_cell,
                 pc, failure, inputs>>

\* Lines 122, 136: the function returns.
UpdateEnd ==
  /\ pc = "update"
  /\ color >= num_colors
  /\ pc' = "done"
  /\ UNCHANGED <<shapeVars, meshVars, dataVars, scratchVars, loopVars,
                 failure, inputs>>

Next ==
  \/ Call
  \/ CheckColored
  \/ Clean
  \/ Allocate
  \/ PassNoList
  \/ PassVertex
  \/ PassNextColor
  \/ PassEnd
  \/ CheckComplete
  \/ Copy
  \/ UpdateCell
  \/ UpdateNextColor
  \/ UpdateEnd

Spec == Init /\ [][Next]_vars

-----------------------------------------------------------------------------
\* The input of the call in progress (or of the last call).
Pre == inputs[Len(inputs)]

Called == Len(inputs) >= 1

Vertices == 0..(num_vertices - 1)
Cells == 0..(num_cells - 1)

\* The cells in the order of the sweep: colors ascending, each list as stored.
Sweep(in) == Flatten(in.colored_cells)

\* The vertices in the order of the sweep.
SweepVertices(in) ==
  [n \in 1..(Len(Sweep(in)) * vertices_per_cell) |->
     At(in.connections,
        At(Sweep(in), (n - 1) \div vertices_per_cell) * vertices_per_cell
          + ((n - 1) % vertices_per_cell))]

EnumeratedVertices(in) == Range(SweepVertices(in))

\* The coloring data is there: what lines 30, 67, 69 and 76 look at.
PassesPresenceChecks(in) ==
  /\ in.has_cell_colors
  /\ in.has_num_colored_cells
  /\ Len(in.num_colored_cells) > 0
  /\ Len(in.colored_cells) >= Len(in.num_colored_cells)

\* Each cell appears in exactly one color list exactly once.
CoversCellsOnce(in) ==
  /\ Len(Sweep(in)) = num_cells
  /\ Range(Sweep(in)) = Cells

\* A valid colored mesh: the coloring data is present, the lists cover the
\* cells exactly once, the recorded counts and the labels agree with the
\* lists, and every vertex is incident to a cell.
ValidColoredMesh(in) ==
  /\ PassesPresenceChecks(in)
  /\ Len(in.colored_cells) = Len(in.num_colored_cells)
  /\ CoversCellsOnce(in)
  /\ \A c \in 1..Len(in.colored_cells) :
       /\ in.num_colored_cells[c] = Len(in.colored_cells[c])
       /\ \A p \in 1..Len(in.colored_cells[c]) :
            At(in.cell_colors, in.colored_cells[c][p]) = c - 1
  /\ Range(in.connections) = Vertices

Bijective(nvi) ==
  /\ Len(nvi) = num_vertices
  /\ \A v \in Vertices : At(nvi, v) \in Vertices
  /\ \A n \in Vertices : Cardinality({v \in Vertices : At(nvi, v) = n}) = 1

CoordinatesOf(coords, v) ==
  [d \in 1..GeometricDim |-> coords[v * GeometricDim + d]]

CoordinatesCarried(in, nvi) ==
  /\ Len(coordinates) = Len(in.coordinates)
  /\ \A v \in Vertices :
       CoordinatesOf(coordinates, At(nvi, v)) = CoordinatesOf(in.coordinates, v)
  /\ \A n \in Vertices :
       \E v \in Vertices : CoordinatesOf(coordinates, n)
                             = CoordinatesOf(in.coordinates, v)

ConnectivityRenumbered(in, nvi) ==
  /\ Len(connections) = Len(in.connections)
  /\ \A k \in 0..(Len(Sweep(in)) - 1) : \A slot \in 0..(vertices_per_cell - 1) :
       At(connections, k * vertices_per_cell + slot)
         = At(nvi, At(in.connections,
                      At(Sweep(in), k) * vertices_per_cell + slot))

Completed == Called /\ pc = "done"

\* C1: for every valid colored mesh, when renumber_by_color completes, the
\* new vertex index map is a bijection from [0, numVertices) onto itself.
C1_Bijection ==
  (Completed /\ ValidColoredMesh(Pre)) => Bijective(new_vertex_indices)

C1_Witness ==
  /\ Completed /\ Len(inputs) = 1 /\ ValidColoredMesh(Pre)
  /\ num_vertices = 3
  /\ new_vertex_indices # <<0, 1, 2>>

\* C2: for every valid colored mesh, after the call, the connectivity entry
\* at (k, slot) of the k-th swept cell is the new index of the vertex that
\* was in that slot of the original cell.
C2_Connectivity ==
  (Completed /\ ValidColoredMesh(Pre))
    => ConnectivityRenumbered(Pre, new_vertex_indices)

C2_Witness ==
  /\ Completed /\ Len(inputs) = 1 /\ ValidColoredMesh(Pre)
  /\ num_cells = 2 /\ vertices_per_cell = 2
  /\ connections # Pre.connections

\* C3: for every valid colored mesh, after the call, the coordinates at the
\* new index of every vertex are the coordinates it had before, and the
\* buffer is a permutation of the vertex coordinate vectors it held.
C3_Coordinates ==
  (Completed /\ ValidColoredMesh(Pre))
    => (CoordinatesCarried(Pre, new_vertex_indices)
        /\ Bijective(new_vertex_indices))

C3_Witness ==
  /\ Completed /\ Len(inputs) = 1 /\ ValidColoredMesh(Pre)
  /\ coordinates # Pre.coordinates

\* The first new cell index of color c (1-based position in the lists).
FirstCellOf(in, c) == SumSeq(SubSeq(Lengths(in.colored_cells), 1, c - 1))

\* C4: for every valid colored mesh, after the call, the list of color c
\* holds the consecutive cell indices starting at the number of cells of the
\* colors below c, the label of every new cell is the color whose list holds
\* it (labels non-decreasing), and new cell k has the color of the k-th swept
\* original cell, each color keeping the stored order of its input list.
C4_ColorMetadata ==
  (Completed /\ ValidColoredMesh(Pre)) =>
    /\ has_cell_colors /\ has_num_colored_cells
    /\ num_colored_cells = Pre.num_colored_cells
    /\ Len(colored_cells) = Len(Pre.colored_cells)
    /\ \A c \in 1..Len(colored_cells) :
         /\ colored_cells[c] =
              [p \in 1..Len(Pre.colored_cells[c]) |-> FirstCellOf(Pre, c) + p - 1]
         /\ \A p \in 1..Len(colored_cells[c]) :
              /\ At(cell_colors, colored_cells[c][p]) = c - 1
              /\ At(Sweep(Pre), colored_cells[c][p]) = Pre.colored_cells[c][p]
    /\ Len(cell_colors) = num_cells
    /\ \A k \in Cells :
         /\ At(cell_colors, k) = At(Pre.cell_colors, At(Sweep(Pre), k))
         /\ \A m \in Cells : k <= m => At(cell_colors, k) <= At(cell_colors, m)

C4_Witness ==
  /\ Completed /\ Len(inputs) = 1 /\ ValidColoredMesh(Pre)
  /\ Len(colored_cells) = 2
  /\ colored_cells # Pre.colored_cells
  /\ cell_colors # Pre.cell_colors

\* The enumerated cells leave a vertex without a new index, on a mesh that
\* carries the coloring data and lists no cell twice.
LeavesVertexOut(in) ==
  /\ PassesPresenceChecks(in)
  /\ \A a, b \in 1..Len(Sweep(in)) : a # b => Sweep(in)[a] # Sweep(in)[b]
  /\ EnumeratedVertices(in) # Vertices

BuffersAndColorsAsBefore(in) ==
  /\ connections = in.connections
  /\ coordinates = in.coordinates
  /\ has_cell_colors = in.has_cell_colors
  /\ cell_colors = in.cell_colors
  /\ has_num_colored_cells = in.has_num_colored_cells
  /\ num_colored_cells = in.num_colored_cells
  /\ colored_cells = in.colored_cells

LiveStateAsBefore(in) ==
  /\ BuffersAndColorsAsBefore(in)
  /\ other_connectivity = in.other_connectivity

\* C5 as stated: when the enumerated cells leave a vertex without a new
\* index, the call fails with the incompleteness error and the live state of
\* the mesh after the failed call equals its state before the call.
C5_NoMutationOnIncomplete ==
  (Called /\ LeavesVertexOut(Pre) /\ pc = "error")
    => (failure = "not all vertices renumbered" /\ LiveStateAsBefore(Pre))

\* C5 as amended: when the enumerated cells leave a vertex without a new
\* index, the call never reaches the buffer commit, it ends only in the
\* incompleteness error, and the connectivity buffer, the coordinate buffer
\* and the color metadata stay as they were before the call (the derived
\* connectivity has been cleared by then).
C5_BuffersUntouchedOnIncomplete ==
  (Called /\ LeavesVertexOut(Pre)) =>
    /\ pc \notin {"copy", "update", "done", "ub"}
    /\ pc = "error" => failure = "not all vertices renumbered"
    /\ BuffersAndColorsAsBefore(Pre)
    /\ pc \in {"alloc", "pass", "check_complete", "error"}
         => other_connectivity = {}

C5_Witness ==
  /\ Called /\ LeavesVertexOut(Pre)
  /\ pc = "error" /\ failure = "not all vertices renumbered"
  /\ Pre.other_connectivity # {}
  /\ other_connectivity = {}
  /\ current_vertex > 0

\* The mesh lacks the labels, the counts, a list, or has no color at all.
LacksColoring(in) == ~PassesPresenceChecks(in)

\* C6: when the labels, the lists or the counts are absent or the color
\* count is zero, the call fails with the precondition error and mutates
\* nothing of the mesh.
C6_PreconditionNoMutation ==
  (Called /\ LacksColoring(Pre)) =>
    /\ LiveStateAsBefore(Pre)
    /\ pc \notin {"copy", "update", "done", "ub"}
    /\ pc = "error" => failure = "not colored"

\* C7: in the metadata update, a color whose list length differs from its
\* recorded count stops the call before any slot of that color is written:
\* no write at or past the end of a list, none past the labels, and no
\* return as if nothing was wrong.
C7_MetadataCheckStops ==
  /\ failure \notin {"write past colored_cells", "write past cell_colors"}
  /\ (pc = "update" /\ color < num_colors /\ color < Len(colored_cells)
        /\ Len(At(colored_cells, color)) # At(num_colored_cells, color))
       => i = 0
  /\ (Completed /\ Pre.has_num_colored_cells)
       => \A c \in 1..Len(Pre.num_colored_cells) :
            c <= Len(Pre.colored_cells)
              /\ Len(Pre.colored_cells[c]) = Pre.num_colored_cells[c]

\* The rank of first encounter of v in the sweep.
FirstEncounter(in, v) ==
  CHOOSE n \in 1..Len(SweepVertices(in)) :
    /\ SweepVertices(in)[n] = v
    /\ \A m \in 1..(n - 1) : SweepVertices(in)[m] # v

FirstEncounterRank(in, v) ==
  Cardinality({u \in EnumeratedVertices(in) :
                 FirstEncounter(in, u) < FirstEncounter(in, v)})

IsExample(in) ==
  /\ num_vertices = 5 /\ num_cells = 3 /\ vertices_per_cell = 3
  /\ in.connections = ExampleConnections
  /\ in.colored_cells = << <<2, 0>>, <<1>> >>

\* C8: the new index of every vertex is its rank of first encounter in the
\* sweep (colors ascending, cells as stored in the list, vertices as stored
\* in the cell); on the example this is v3->0, v1->1, v0->2, v2->3, v4->4
\* and new cell 0 = (0, 1, 2).
C8_FirstEncounterOrder ==
  Completed =>
    /\ \A v \in Vertices :
         At(new_vertex_indices, v) = FirstEncounterRank(Pre, v)
    /\ IsExample(Pre) =>
         /\ new_vertex_indices = <<2, 1, 3, 0, 4>>
         /\ SubSeq(connections, 1, 3) = <<0, 1, 2>>

C8_Witness == Completed /\ Len(inputs) = 1 /\ IsExample(Pre)

\* C9: a further application to the output of a successful application to a
\* valid colored mesh, with the metadata that application wrote, gets a valid
\* colored mesh, does not fail, and again gives a bijection with the
\* coordinates and the connectivity carried over from its own input.
C9_Reapplication ==
  (Len(inputs) >= 2 /\ ValidColoredMesh(inputs[1])) =>
    /\ \A n \in 2..Len(inputs) : ValidColoredMesh(inputs[n])
    /\ pc \notin {"error", "ub"}
    /\ pc = "done" =>
         /\ Bijective(new_vertex_indices)
         /\ CoordinatesCarried(Pre, new_vertex_indices)
         /\ ConnectivityRenumbered(Pre, new_vertex_indices)

C9_Witness ==
  /\ Len(inputs) = 2 /\ pc = "done"
  /\ ValidColoredMesh(inputs[1])
  /\ inputs[2].connections # inputs[1].connections
  /\ inputs[2].colored_cells # inputs[1].colored_cells

\* C10: for every input that passes the presence checks, at the end of the
\* pass connectionsOffset is the connectivity buffer length and
\* nextVertexSlot is the vertex count exactly when every vertex is incident
\* to an enumerated cell; no write goes past the end of a scratch buffer and
\* no unwritten scratch entry is committed.
C10_ScratchFullyWritten ==
  (Called /\ PassesPresenceChecks(Pre)) =>
    /\ failure \notin {"write past new_connections",
                       "write past new_coordinates"}
    /\ pc = "check_complete" =>
         /\ connections_offset = connections_size
         /\ (current_vertex = num_vertices
               <=> EnumeratedVertices(Pre) = Vertices)
    /\ pc = "copy" =>
         /\ UnwrittenEntries(new_connections, connections_size) = {}
         /\ UnwrittenEntries(new_coordinates, coordinates_size) = {}

====
